---- MODULE Spec2Model ----
(***************************************************************************)
(* Model of the snake game of src/src/js.js: the game object with its      *)
(* snake, food, status, score and tick timer, driven by the three input    *)
(* handlers (play button, new game button, key down) and by the interval   *)
(* timer calling tickHandler.                                              *)
(*                                                                         *)
(* The grid and the win threshold are settings (config.settings).  The     *)
(* specifications of the running game (Spec, SpecApi) start from a game    *)
(* initialized with a reduced grid and win threshold, so that the          *)
(* reachable states can be enumerated; SpecDraw is the same game with the  *)
(* loop of getRandomFreeCoordinates taken one draw at a time; SpecConfig   *)
(* is the load callback calling game.init with the real ranges.  A Point   *)
(* is a record [x, y].                                                     *)
(***************************************************************************)
EXTENDS Integers, Sequences, FiniteSets, TLC

\* ---- settings of the running game (Spec, SpecApi), reduced scale ----
colsCount == 4
rowsCount == 5
winFoodCount == 4

\* most interval timers that direct calls of play() may leave running (SpecApi)
MaxTimers == 3

VARIABLES
  body,               \* snake.body: sequence of Points, head first
  direction,          \* snake.direction
  lastStepDirection,  \* snake.lastStepDirection
  food,               \* food.x, food.y as one Point
  condition,          \* status.condition
  count,              \* score.count
  tickInterval,       \* game.tickInterval: 0 is null, otherwise a timer id
  timers,             \* ids of the interval timers that are active
  settings,           \* config.settings
  consoleErrors,      \* the messages game.init passed to console.error
  cells,              \* map.cells: 0 is null, otherwise the number of td built
  handlers,           \* TRUE when setEventHandlers has installed the listeners
  pc                  \* "load" before the load callback has run, then "ready"

vars == <<body, direction, lastStepDirection, food, condition, count, tickInterval, timers,
          settings, consoleErrors, cells, handlers, pc>>

\* what only game.init writes
env == <<settings, consoleErrors, cells, handlers, pc>>

\* ---- config ----
getRowsCount == settings.rowsCount
getColsCount == settings.colsCount
getSpeed == settings.speed
getWinFoodCount == settings.winFoodCount

\* the defaults of the settings object
DefaultSettings == [rowsCount |-> 21, colsCount |-> 21, speed |-> 2, winFoodCount |-> 50]

\* Object.assign(this.settings, userSettings): userSettings is a function from
\* some of the setting names to values
configInit(current, userSettings) ==
  [k \in DOMAIN current |-> IF k \in DOMAIN userSettings THEN userSettings[k] ELSE current[k]]

\* variant: validation returns at the first error
validate_stopsAtFirstError(s) ==
  IF s.rowsCount < 10 \/ s.rowsCount > 30
    THEN [isValid |-> FALSE, errors |-> <<"rowsCount [10, 30]">>]
  ELSE IF s.colsCount < 10 \/ s.colsCount > 30
    THEN [isValid |-> FALSE, errors |-> <<"colsCount [10, 30]">>]
  ELSE IF s.speed < 1 \/ s.speed > 10
    THEN [isValid |-> FALSE, errors |-> <<"speed [1, 10]">>]
  ELSE IF s.winFoodCount < 5 \/ s.winFoodCount > 50
    THEN [isValid |-> FALSE, errors |-> <<"winLength [5, 50]">>]
  ELSE [isValid |-> TRUE, errors |-> <<>>]

\* config.validate on the settings s; a message is written as the name and
\* the range it prints
validate(s) ==
  LET result0 == [isValid |-> TRUE, errors |-> <<>>]
      result1 == IF s.rowsCount < 10 \/ s.rowsCount > 30
                   THEN [isValid |-> FALSE, errors |-> Append(result0.errors, "rowsCount [10, 30]")]
                   ELSE result0
      result2 == IF s.colsCount < 10 \/ s.colsCount > 30
                   THEN [isValid |-> FALSE, errors |-> Append(result1.errors, "colsCount [10, 30]")]
                   ELSE result1
      result3 == IF s.speed < 1 \/ s.speed > 10
                   THEN [isValid |-> FALSE, errors |-> Append(result2.errors, "speed [1, 10]")]
                   ELSE result2
      result4 == IF s.winFoodCount < 5 \/ s.winFoodCount > 50
                   THEN [isValid |-> FALSE, errors |-> Append(result3.errors, "winLength [5, 50]")]
                   ELSE result3
  IN result4

\* snake.maxX, snake.maxY as reset() passes them to snake.init
maxX == getColsCount - 1
maxY == getRowsCount - 1

\* food.x = food.y = null, before the first setCoordinates
NullPoint == [x |-> -1, y |-> -1]

\* every value of rndPoint in getRandomFreeCoordinates
RndPoints == [x : 0..(getColsCount - 1), y : 0..(getRowsCount - 1)]

\* event.code values: the eight mapped codes and one unmapped
Codes == {"KeyW", "ArrowUp", "KeyD", "ArrowRight", "KeyS", "ArrowDown", "KeyA", "ArrowLeft", "Space"}

\* ---- snake ----
isOnPoint(b, point) == \E i \in 1..Len(b) : b[i].x = point.x /\ b[i].y = point.y

\* variant: moving up from row 0 does not wrap
getNextStepHeadPoint_noWrapUp(b, dir) ==
  LET firstPoint == b[1] IN
  CASE dir = "up"    -> [x |-> firstPoint.x, y |-> IF firstPoint.y # 0 THEN firstPoint.y - 1 ELSE 0]
    [] dir = "right" -> [x |-> IF firstPoint.x # maxX THEN firstPoint.x + 1 ELSE 0, y |-> firstPoint.y]
    [] dir = "down"  -> [x |-> firstPoint.x, y |-> IF firstPoint.y # maxY THEN firstPoint.y + 1 ELSE 0]
    [] dir = "left"  -> [x |-> IF firstPoint.x # 0 THEN firstPoint.x - 1 ELSE maxX, y |-> firstPoint.y]

getNextStepHeadPoint(b, dir) ==
  LET firstPoint == b[1] IN
  CASE dir = "up"    -> [x |-> firstPoint.x, y |-> IF firstPoint.y # 0 THEN firstPoint.y - 1 ELSE maxY]
    [] dir = "right" -> [x |-> IF firstPoint.x # maxX THEN firstPoint.x + 1 ELSE 0, y |-> firstPoint.y]
    [] dir = "down"  -> [x |-> firstPoint.x, y |-> IF firstPoint.y # maxY THEN firstPoint.y + 1 ELSE 0]
    [] dir = "left"  -> [x |-> IF firstPoint.x # 0 THEN firstPoint.x - 1 ELSE maxX, y |-> firstPoint.y]

\* variant: the tail is not cloned
growUp_noClone(b) == b

growUp(b) == Append(b, b[Len(b)])

\* variant: the old head is dropped instead of the tail
makeStepBody_dropsHead(b, dir) == <<getNextStepHeadPoint(b, dir)>> \o Tail(b)

\* variant: the tail is not popped
makeStepBody_noPop(b, dir) == <<getNextStepHeadPoint(b, dir)>> \o b

\* body.unshift(next head); body.pop()
makeStepBody(b, dir) == SubSeq(<<getNextStepHeadPoint(b, dir)>> \o b, 1, Len(b))

\* ---- food ----
foodIsOnPoint(f, point) == f.x = point.x /\ f.y = point.y

\* ---- game: pure helpers ----
getStartSnakeBody == << [x |-> getColsCount \div 2, y |-> getRowsCount \div 2] >>

\* variant: only the food cell is excluded
getRandomFreeCoordinates_ignoresBody(f, b) ==
  {rndPoint \in RndPoints : ~ (rndPoint.x = f.x /\ rndPoint.y = f.y)}

\* variant: the current food cell is not excluded
getRandomFreeCoordinates_ignoresFood(f, b) ==
  {rndPoint \in RndPoints :
     ~ \E i \in 1..Len(b) : rndPoint.x = b[i].x /\ rndPoint.y = b[i].y}

\* variant: only the x coordinates are compared
getRandomFreeCoordinates_comparesXOnly(f, b) ==
  LET exclude == <<f>> \o b IN
  {rndPoint \in RndPoints : ~ \E i \in 1..Len(exclude) : rndPoint.x = exclude[i].x}

\* the points the rejection loop can return: not equal to any point of exclude
getRandomFreeCoordinates(f, b) ==
  LET exclude == <<f>> \o b IN
  {rndPoint \in RndPoints :
     ~ \E i \in 1..Len(exclude) : rndPoint.x = exclude[i].x /\ rndPoint.y = exclude[i].y}

getDirectionByCode(code) ==
  CASE code \in {"KeyW", "ArrowUp"}    -> "up"
    [] code \in {"KeyD", "ArrowRight"} -> "right"
    [] code \in {"KeyS", "ArrowDown"}  -> "down"
    [] code \in {"KeyA", "ArrowLeft"}  -> "left"
    [] OTHER -> ""

\* variant: every recognized direction is accepted
canSetDirection_anyDirection(d, last) == d \in {"up", "right", "down", "left"}

\* variant: the request is compared with the pending direction
canSetDirection_againstPending(d, last) ==
  \/ d = "up" /\ direction # "down"
  \/ d = "right" /\ direction # "left"
  \/ d = "down" /\ direction # "up"
  \/ d = "left" /\ direction # "right"

\* variant: the clause for down compares with down
canSetDirection_downClauseSlip(d, last) ==
  \/ d = "up" /\ last # "down"
  \/ d = "right" /\ last # "left"
  \/ d = "down" /\ last # "down"
  \/ d = "left" /\ last # "right"

canSetDirection(d, last) ==
  \/ d = "up" /\ last # "down"
  \/ d = "right" /\ last # "left"
  \/ d = "down" /\ last # "up"
  \/ d = "left" /\ last # "right"

\* variant: the comparison is not strict
isGameWon_notStrict(b) == Len(b) >= getWinFoodCount

\* variant: the threshold is one too high
isGameWon_oneTooHigh(b) == Len(b) > getWinFoodCount + 1

isGameWon(b) == Len(b) > getWinFoodCount

\* variant: the step is always allowed
canMakeStep_always(b, dir) == TRUE

canMakeStep(b, dir) == ~ isOnPoint(b, getNextStepHeadPoint(b, dir))

\* ---- timers ----
\* setInterval returns a positive handle that no active timer has.  The only
\* place a handle is kept is tickInterval, which the caller overwrites with
\* the new one, so which free handle is returned cannot be observed: the
\* least one is taken.
setInterval(active) ==
  CHOOSE id \in 1..(Cardinality(active) + 1) :
    /\ id \notin active
    /\ \A j \in 1..(id - 1) : j \in active

clearInterval(active, handle) == active \ {handle}

\* ---- game: status transitions (the other variables are framed by the caller) ----
play ==
  /\ condition' = "playing"
  /\ tickInterval' = setInterval(timers)
  /\ timers' = timers \cup {setInterval(timers)}

stop ==
  /\ condition' = "stopped"
  /\ timers' = clearInterval(timers, tickInterval)
  /\ UNCHANGED tickInterval

\* variant: finish leaves the interval running
finish_noClear ==
  /\ condition' = "finished"
  /\ UNCHANGED <<tickInterval, timers>>

finish ==
  /\ condition' = "finished"
  /\ timers' = clearInterval(timers, tickInterval)
  /\ UNCHANGED tickInterval

\* variant: reset does not stop the game
reset_noStop ==
  /\ UNCHANGED <<condition, tickInterval, timers>>
  /\ count' = 0
  /\ body' = getStartSnakeBody
  /\ direction' = "up"
  /\ lastStepDirection' = "up"
  /\ food' \in getRandomFreeCoordinates(food, getStartSnakeBody)

reset ==
  /\ stop
  /\ count' = 0
  /\ body' = getStartSnakeBody
  /\ direction' = "up"
  /\ lastStepDirection' = "up"
  /\ food' \in getRandomFreeCoordinates(food, getStartSnakeBody)

\* ---- handlers ----
tickHandler ==
  /\ timers # {}
  /\ UNCHANGED env
  /\ IF ~ canMakeStep(body, direction)
       THEN /\ finish
            /\ UNCHANGED <<body, direction, lastStepDirection, food, count>>
       ELSE IF foodIsOnPoint(food, getNextStepHeadPoint(body, direction))
         THEN /\ count' = count + 1
              /\ food' \in getRandomFreeCoordinates(food, growUp(body))
              /\ IF isGameWon(growUp(body))
                   THEN finish
                   ELSE UNCHANGED <<condition, tickInterval, timers>>
              /\ lastStepDirection' = direction
              /\ body' = makeStepBody(growUp(body), direction)
              /\ UNCHANGED direction
         ELSE /\ lastStepDirection' = direction
              /\ body' = makeStepBody(body, direction)
              /\ UNCHANGED <<direction, food, count, condition, tickInterval, timers>>

\* variant: every status but playing starts the game
playClickHandler_noStoppedCheck ==
  IF condition = "playing"
    THEN stop /\ UNCHANGED <<body, direction, lastStepDirection, food, count, env>>
    ELSE play /\ UNCHANGED <<body, direction, lastStepDirection, food, count, env>>

playClickHandler ==
  IF condition = "playing"
    THEN stop /\ UNCHANGED <<body, direction, lastStepDirection, food, count, env>>
    ELSE IF condition = "stopped"
      THEN play /\ UNCHANGED <<body, direction, lastStepDirection, food, count, env>>
      ELSE UNCHANGED vars

newGameClickHandler == reset /\ UNCHANGED env

\* variant: the status is not looked at
directionAfterKeyDown_noStatusCheck(code) ==
  IF canSetDirection(getDirectionByCode(code), lastStepDirection)
    THEN getDirectionByCode(code)
    ELSE direction

\* snake.direction when keyDownHandler(event) returns, event.code = code
directionAfterKeyDown(code) ==
  IF condition # "playing"
    THEN direction
    ELSE IF canSetDirection(getDirectionByCode(code), lastStepDirection)
      THEN getDirectionByCode(code)
      ELSE direction

keyDownHandler(code) ==
  /\ direction' = directionAfterKeyDown(code)
  /\ UNCHANGED <<body, lastStepDirection, food, condition, count, tickInterval, timers, env>>

\* ---- the game after game.init() with valid settings: reset() has run once ----
Init ==
  /\ settings = [rowsCount |-> rowsCount, colsCount |-> colsCount, speed |-> 5,
                 winFoodCount |-> winFoodCount]
  /\ condition = "stopped"
  /\ tickInterval = 0
  /\ timers = {}
  /\ count = 0
  /\ body = getStartSnakeBody
  /\ direction = "up"
  /\ lastStepDirection = "up"
  /\ food \in getRandomFreeCoordinates(NullPoint, getStartSnakeBody)
  /\ consoleErrors = <<>>
  /\ cells = rowsCount * colsCount
  /\ handlers = TRUE
  /\ pc = "ready"

\* the timer's callback and the listeners setEventHandlers installed
Next ==
  \/ tickHandler
  \/ handlers /\ playClickHandler
  \/ handlers /\ newGameClickHandler
  \/ handlers /\ \E code \in Codes : keyDownHandler(code)

Spec == Init /\ [][Next]_vars

\* ---- the load callback: game.init(userSettings) on the untouched objects ----
\* score.count = null
NullCount == 0 - 1

\* the values tried for each setting: around both ends of its range, and the
\* speed the load callback passes
SettingValues(k) ==
  CASE k = "rowsCount"    -> {9, 10, 30, 31}
    [] k = "colsCount"    -> {9, 10, 30, 31}
    [] k = "speed"        -> {0, 1, 5, 10, 11}
    [] k = "winFoodCount" -> {4, 5, 50, 51}

UserSettings ==
  UNION {{u \in [K -> 0..51] : \A k \in K : u[k] \in SettingValues(k)} :
           K \in SUBSET DOMAIN DefaultSettings}

InitLoad ==
  /\ pc = "load"
  /\ settings = DefaultSettings
  /\ consoleErrors = <<>>
  /\ cells = 0
  /\ handlers = FALSE
  /\ condition = "null"
  /\ tickInterval = 0
  /\ timers = {}
  /\ count = NullCount
  /\ body = <<>>
  /\ direction = "null"
  /\ lastStepDirection = "null"
  /\ food = NullPoint

\* variant: the game is started whatever validate returned
gameInit_ignoresValidation(userSettings) ==
  /\ pc = "load"
  /\ pc' = "ready"
  /\ settings' = configInit(settings, userSettings)
  /\ consoleErrors' = validate(settings').errors
  /\ cells' = getRowsCount' * getColsCount'
  /\ handlers' = TRUE
  /\ stop
  /\ count' = 0
  /\ body' = getStartSnakeBody'
  /\ direction' = "up"
  /\ lastStepDirection' = "up"
  /\ food' \in getRandomFreeCoordinates(NullPoint, getStartSnakeBody)'

\* game.init: config.init, validate, then either the errors are logged and
\* init returns, or map.init, score.init, setEventHandlers and reset run with
\* the settings just merged (food is still null when reset draws)
gameInit(userSettings) ==
  /\ pc = "load"
  /\ pc' = "ready"
  /\ settings' = configInit(settings, userSettings)
  /\ IF ~ validate(settings').isValid
       THEN /\ consoleErrors' = consoleErrors \o validate(settings').errors
            /\ UNCHANGED <<body, direction, lastStepDirection, food, condition, count,
                           tickInterval, timers, cells, handlers>>
       ELSE /\ UNCHANGED consoleErrors
            /\ cells' = getRowsCount' * getColsCount'
            /\ handlers' = TRUE
            /\ stop
            /\ count' = 0
            /\ body' = getStartSnakeBody'
            /\ direction' = "up"
            /\ lastStepDirection' = "up"
            /\ food' \in getRandomFreeCoordinates(NullPoint, getStartSnakeBody)'

NextConfig == \E userSettings \in UserSettings : gameInit(userSettings)

SpecConfig == InitLoad /\ [][NextConfig]_vars

\* ---- direct calls of the game object's methods, with the timer's ticks ----
callPlay ==
  /\ Cardinality(timers) < MaxTimers
  /\ play
  /\ UNCHANGED <<body, direction, lastStepDirection, food, count, env>>

callStop == stop /\ UNCHANGED <<body, direction, lastStepDirection, food, count, env>>

callFinish == finish /\ UNCHANGED <<body, direction, lastStepDirection, food, count, env>>

callReset == reset /\ UNCHANGED env

NextApi ==
  \/ callPlay
  \/ callStop
  \/ callFinish
  \/ callReset
  \/ tickHandler

SpecApi == Init /\ [][NextApi]_vars

\* ---- the game with the rejection loop of getRandomFreeCoordinates as steps ----
\* pc is "resetDraw" or "tickDraw" while reset or tickHandler is inside the
\* loop; no other handler runs until the loop has returned.

\* reset up to the call of getRandomFreeCoordinates
resetBegin ==
  /\ pc = "ready"
  /\ handlers
  /\ stop
  /\ count' = 0
  /\ body' = getStartSnakeBody
  /\ direction' = "up"
  /\ lastStepDirection' = "up"
  /\ pc' = "resetDraw"
  /\ UNCHANGED <<food, settings, consoleErrors, cells, handlers>>

\* tickHandler: whole when it does not eat, otherwise up to the call of
\* getRandomFreeCoordinates
tickBegin ==
  /\ pc = "ready"
  /\ IF canMakeStep(body, direction) /\ foodIsOnPoint(food, getNextStepHeadPoint(body, direction))
       THEN /\ timers # {}
            /\ body' = growUp(body)
            /\ count' = count + 1
            /\ pc' = "tickDraw"
            /\ UNCHANGED <<direction, lastStepDirection, food, condition, tickInterval, timers,
                           settings, consoleErrors, cells, handlers>>
       ELSE tickHandler

\* one iteration of the loop: a point is drawn; a free one is returned and
\* the handler runs to its end, another one starts the next iteration
drawRndPoint ==
  /\ pc \in {"resetDraw", "tickDraw"}
  /\ \E rndPoint \in RndPoints :
       IF rndPoint \in getRandomFreeCoordinates(food, body)
         THEN /\ food' = rndPoint
              /\ pc' = "ready"
              /\ UNCHANGED <<direction, count, settings, consoleErrors, cells, handlers>>
              /\ IF pc = "resetDraw"
                   THEN UNCHANGED <<body, lastStepDirection, condition, tickInterval, timers>>
                   ELSE /\ IF isGameWon(body)
                             THEN finish
                             ELSE UNCHANGED <<condition, tickInterval, timers>>
                        /\ lastStepDirection' = direction
                        /\ body' = makeStepBody(body, direction)
         ELSE UNCHANGED vars

NextDraw ==
  \/ tickBegin
  \/ resetBegin
  \/ drawRndPoint
  \/ pc = "ready" /\ handlers /\ playClickHandler
  \/ pc = "ready" /\ handlers /\ \E code \in Codes : keyDownHandler(code)

\* every draw is a fair one: a free point is drawn after finitely many draws
\* when there is one
SpecDraw == Init /\ [][NextDraw]_vars /\ WF_vars(drawRndPoint)

\* ---- vocabulary of the properties ----
Dirs == {"up", "right", "down", "left"}

Reversal(d) ==
  CASE d = "up" -> "down"
    [] d = "down" -> "up"
    [] d = "left" -> "right"
    [] d = "right" -> "left"

\* the cell one step from p in direction d on the torus
Shift(p, d) ==
  CASE d = "up"    -> [x |-> p.x, y |-> (p.y + rowsCount - 1) % rowsCount]
    [] d = "down"  -> [x |-> p.x, y |-> (p.y + 1) % rowsCount]
    [] d = "left"  -> [x |-> (p.x + colsCount - 1) % colsCount, y |-> p.y]
    [] d = "right" -> [x |-> (p.x + 1) % colsCount, y |-> p.y]

GridPoints == [x : 0..(colsCount - 1), y : 0..(rowsCount - 1)]

InGrid(p) == p.x \in 0..(colsCount - 1) /\ p.y \in 0..(rowsCount - 1)

Occupied(b) == {b[i] : i \in 1..Len(b)}

ProspectiveHead == getNextStepHeadPoint(body, direction)

TypeOK ==
  /\ body \in Seq(RndPoints)
  /\ Len(body) >= 1
  /\ direction \in Dirs
  /\ lastStepDirection \in Dirs
  /\ InGrid(food)
  /\ condition \in {"stopped", "playing", "finished"}
  /\ count \in Nat
  /\ tickInterval \in Nat
  /\ timers \subseteq Nat
  /\ settings \in [DOMAIN DefaultSettings -> Nat]
  /\ consoleErrors = <<>>
  /\ cells = getRowsCount * getColsCount
  /\ handlers = TRUE
  /\ pc = "ready"

\* C1: a tick whose prospective head is the food cell lengthens the body by
\* one and adds one to the score; the new head is on the former food cell and
\* the former body follows it unchanged.
EatingTickGrowsAndMoves ==
  [][(condition = "playing" /\ ProspectiveHead = food /\ tickHandler) =>
       /\ Len(body') = Len(body) + 1
       /\ count' = count + 1
       /\ body'[1] = food
       /\ SubSeq(body', 2, Len(body')) = body]_vars

EatingTickWitness ==
  /\ condition = "playing"
  /\ count = 1
  /\ body = <<Shift(getStartSnakeBody[1], "up")>> \o getStartSnakeBody

\* C2: a tick whose prospective head is on the snake body finishes the game,
\* cancels the timer and leaves body, direction, lastStepDirection, food and
\* score as they were.
SelfCollisionTickOnlyFinishes ==
  [][(ProspectiveHead \in Occupied(body) /\ tickHandler) =>
       /\ condition' = "finished"
       /\ timers' = {}
       /\ UNCHANGED <<body, direction, lastStepDirection, food, count>>]_vars

SelfCollisionWitness ==
  /\ condition = "finished"
  /\ ProspectiveHead \in Occupied(body)
  /\ Len(body) >= 4
  /\ timers = {}

\* C3: a tick that does not collide finishes the game exactly when it eats
\* and the score it reaches is winFoodCount; the game then ends with body
\* length winFoodCount + 1 and score winFoodCount.
WinExactlyOnLastFood ==
  [][(condition = "playing" /\ ProspectiveHead \notin Occupied(body) /\ tickHandler) =>
       /\ (condition' = "finished") <=> (ProspectiveHead = food /\ Len(body) + 1 > winFoodCount)
       /\ (ProspectiveHead = food /\ Len(body) + 1 > winFoodCount)
             <=> (ProspectiveHead = food /\ count + 1 = winFoodCount)
       /\ (condition' = "finished") =>
             (Len(body') = winFoodCount + 1 /\ count' = winFoodCount)]_vars

WinWitness ==
  /\ condition = "finished"
  /\ Len(body) = winFoodCount + 1
  /\ count = winFoodCount
  /\ timers = {}

\* C4: in status finished, a play click, a key down and a timer callback
\* leave status, body, food and score unchanged; only reset leaves finished.
FinishedIsTerminal ==
  [][(condition = "finished" /\ (playClickHandler \/ tickHandler \/ \E code \in Codes : keyDownHandler(code))) =>
        UNCHANGED <<condition, body, food, count>>]_vars
  /\ [][(condition = "finished" /\ condition' # "finished") => newGameClickHandler]_vars

FinishedWitness ==
  /\ condition = "finished"
  /\ tickInterval # 0

\* C5: after any sequence of calls of play, stop, finish and reset at most one
\* tick timer is active.
SingleTimer == Cardinality(timers) <= 1

\* C6: a tick timer is active exactly when the status is playing, and never
\* more than one; none is active after stop or finish.
TimerFollowsStatus ==
  /\ (timers # {}) <=> (condition = "playing")
  /\ condition = "playing" => timers = {tickInterval}

StoppedAfterPlayingWitness ==
  /\ condition = "stopped"
  /\ tickInterval # 0
  /\ timers = {}
  /\ Len(body) > 1

\* C7: while playing, a key changes the direction to d exactly when d is one
\* of the four directions and not the reversal of lastStepDirection; every
\* other key leaves the direction as it is.
DirectionAcceptance ==
  \A code \in Codes :
    LET d == getDirectionByCode(code) IN
    condition = "playing" =>
      directionAfterKeyDown(code) =
        IF d \in Dirs /\ d # Reversal(lastStepDirection) THEN d ELSE direction

DirectionAcceptedWitness ==
  /\ condition = "playing"
  /\ lastStepDirection = "up"
  /\ direction = "left"
  /\ Len(body) > 1

\* C8: each request is judged against lastStepDirection whatever the pending
\* direction is, an accepted request replaces the pending direction, and a
\* tick that moves puts the head one cell in the pending direction and sets
\* lastStepDirection to it; only key downs and reset change the direction
\* and only ticks and reset change lastStepDirection.
LastAcceptedDirectionWins ==
  /\ [](\A code \in Codes :
          (condition = "playing" /\ getDirectionByCode(code) \in Dirs
             /\ getDirectionByCode(code) # Reversal(lastStepDirection))
            => directionAfterKeyDown(code) = getDirectionByCode(code))
  /\ [][(ProspectiveHead \notin Occupied(body) /\ tickHandler) =>
          /\ body'[1] = Shift(body[1], direction)
          /\ lastStepDirection' = direction
          /\ direction' = direction]_vars
  /\ [][direction' # direction =>
          (newGameClickHandler \/ \E code \in Codes : keyDownHandler(code))]_vars
  /\ [][lastStepDirection' # lastStepDirection => (newGameClickHandler \/ tickHandler)]_vars

LastAcceptedWitness ==
  /\ condition = "playing"
  /\ Len(body) >= 2
  /\ lastStepDirection = "right"
  /\ body[1] = Shift(body[2], "right")
  /\ direction = "down"

\* C9: for the head of every reachable snake and every direction the next
\* head point is the head shifted one cell modulo the grid size, and it is
\* inside the grid.
ToroidalWraparound ==
  \A d \in Dirs :
    /\ getNextStepHeadPoint(body, d) = Shift(body[1], d)
    /\ InGrid(getNextStepHeadPoint(body, d))

WrapWitness ==
  /\ condition = "playing"
  /\ body[1].x = maxX
  /\ lastStepDirection = "left"
  /\ Len(body) >= 2
  /\ body[2].x = 0

\* C10: the food placed by reset and by an eating tick is inside the grid and
\* on no point of the snake body as it is when the food is placed.
FoodPlacedOnFreeCell ==
  /\ [](InGrid(food) /\ (count = 0 /\ Len(body) = 1 => food \notin Occupied(body)))
  /\ [][newGameClickHandler => food' \notin Occupied(body')]_vars
  /\ [][(ProspectiveHead = food /\ tickHandler) =>
          (InGrid(food') /\ food' \notin Occupied(growUp(body)))]_vars

FoodPlacedWitness ==
  /\ count >= 2
  /\ Len(body) = count + 1
  /\ InGrid(food)
  /\ food \notin Occupied(body)

\* C11: reset, in whatever status it is called, ends with status stopped, no
\* active timer, score 0, a snake of length 1 on the centre cell with
\* direction and lastStepDirection up, and food on another cell of the grid.
ResetPostcondition ==
  [][newGameClickHandler =>
       /\ condition' = "stopped"
       /\ timers' = {}
       /\ count' = 0
       /\ body' = << [x |-> colsCount \div 2, y |-> rowsCount \div 2] >>
       /\ direction' = "up"
       /\ lastStepDirection' = "up"
       /\ InGrid(food')
       /\ food' # body'[1]]_vars

ResetAfterPlayWitness ==
  /\ condition = "stopped"
  /\ tickInterval # 0
  /\ count = 0
  /\ body = << [x |-> colsCount \div 2, y |-> rowsCount \div 2] >>
  /\ direction = "up"
  /\ lastStepDirection = "up"
  /\ food = [x |-> 0, y |-> 0]

\* ---- vocabulary of the configuration properties ----
SettingOrder == <<"rowsCount", "colsCount", "speed", "winFoodCount">>

SettingRange(k) ==
  CASE k = "rowsCount"    -> 10..30
    [] k = "colsCount"    -> 10..30
    [] k = "speed"        -> 1..10
    [] k = "winFoodCount" -> 5..50

SettingMessage(k) ==
  CASE k = "rowsCount"    -> "rowsCount [10, 30]"
    [] k = "colsCount"    -> "colsCount [10, 30]"
    [] k = "speed"        -> "speed [1, 10]"
    [] k = "winFoodCount" -> "winLength [5, 50]"

OutOfRange(s) == {k \in DOMAIN s : s[k] \notin SettingRange(k)}

IsOutOfRange(k) == settings[k] \notin SettingRange(k)

ExpectedErrors ==
  LET bad == SelectSeq(SettingOrder, IsOutOfRange)
  IN [i \in 1..Len(bad) |-> SettingMessage(bad[i])]

\* C12: validate returns one error for each setting outside its range, in the
\* order rowsCount, colsCount, speed, winFoodCount, and isValid is true exactly
\* when there is no error.
ValidateReportsEveryViolation ==
  /\ validate(settings).errors = ExpectedErrors
  /\ Len(validate(settings).errors) = Cardinality(OutOfRange(settings))
  /\ validate(settings).isValid <=> (validate(settings).errors = <<>>)

TwoErrorsWitness ==
  /\ pc = "ready"
  /\ settings.rowsCount = 9
  /\ settings.speed = 11
  /\ settings.colsCount = 21
  /\ settings.winFoodCount = 50
  /\ consoleErrors = <<"rowsCount [10, 30]", "speed [1, 10]">>

\* C13: after game.init with settings for which validate reports an error,
\* no board is built, no listener is installed, no timer exists and status,
\* snake, food and score are as they were before the call.
InvalidSettingsBlockStartup ==
  (pc = "ready" /\ validate(settings).errors # <<>>) =>
    /\ cells = 0
    /\ handlers = FALSE
    /\ timers = {}
    /\ tickInterval = 0
    /\ condition = "null"
    /\ body = <<>>
    /\ direction = "null"
    /\ lastStepDirection = "null"
    /\ food = NullPoint
    /\ count = NullCount

NotStartedWitness ==
  /\ pc = "ready"
  /\ OutOfRange(settings) = {"colsCount", "winFoodCount"}
  /\ Len(consoleErrors) = 2
  /\ cells = 0
  /\ condition = "null"

\* C14 as stated: on an eating tick the new food can be exactly any cell of
\* the grid that the grown body does not occupy.
OnlyBodyExcludedOnConsumption ==
  (condition = "playing" /\ ProspectiveHead = food) =>
    \A p \in GridPoints :
      (ENABLED (tickHandler /\ food' = p)) <=> (p \notin Occupied(growUp(body)))

\* C14 amended: on an eating tick the new food can be exactly any cell of the
\* grid that is neither occupied by the grown body nor the cell of the food
\* being eaten.
BodyAndEatenFoodExcludedOnConsumption ==
  (condition = "playing" /\ ProspectiveHead = food) =>
    \A p \in GridPoints :
      (ENABLED (tickHandler /\ food' = p)) <=> (p \notin Occupied(growUp(body)) /\ p # food)

SecondFoodAheadWitness ==
  /\ condition = "playing"
  /\ ProspectiveHead = food
  /\ count >= 1
  /\ Len(body) >= 2

\* C15: a tick whose prospective head is neither on the body nor on the food
\* puts the prospective head in front of the body without its last point,
\* sets lastStepDirection to direction and leaves food, score and status.
PlainMoveTick ==
  [][(condition = "playing"
        /\ Shift(body[1], direction) \notin Occupied(body)
        /\ Shift(body[1], direction) # food
        /\ tickHandler) =>
       /\ body' = <<Shift(body[1], direction)>> \o SubSeq(body, 1, Len(body) - 1)
       /\ lastStepDirection' = direction
       /\ UNCHANGED <<food, count, condition>>]_vars

PlainMoveWitness ==
  /\ condition = "playing"
  /\ count = 0
  /\ Len(body) = 1
  /\ lastStepDirection = "down"
  /\ body[1].y = 0

\* C16: whenever reset or an eating tick is inside the loop of
\* getRandomFreeCoordinates, the exclude list covers fewer cells than the grid
\* has, and under fair draws the loop returns.
FoodPlacementTerminates ==
  /\ [](pc \in {"resetDraw", "tickDraw"} =>
          Cardinality({food} \cup Occupied(body)) < colsCount * rowsCount)
  /\ (pc \in {"resetDraw", "tickDraw"}) ~> (pc = "ready")

LastPlacementReturnedWitness ==
  /\ pc = "ready"
  /\ condition = "finished"
  /\ count = winFoodCount
  /\ InGrid(food)
  /\ food \notin Occupied(body)

\* C17: while the status is stopped or finished no timer is active and a key
\* leaves the direction; every step taken in such a status, and the step
\* that stops the game, leaves body, direction, lastStepDirection, food and
\* score unchanged unless it is a reset.
FrozenWhileNotPlaying ==
  /\ [](condition # "playing" =>
          /\ timers = {}
          /\ \A code \in Codes : directionAfterKeyDown(code) = direction)
  /\ [][((condition # "playing" \/ condition' = "stopped") /\ ~ newGameClickHandler) =>
          UNCHANGED <<body, direction, lastStepDirection, food, count>>]_vars

PausedWitness ==
  /\ condition = "stopped"
  /\ Len(body) >= 2
  /\ direction # lastStepDirection
  /\ timers = {}

\* C18: the points of the snake body are pairwise distinct and the food is on
\* none of them.
OccupancyInjective ==
  /\ \A i, j \in 1..Len(body) : i # j => body[i] # body[j]
  /\ food \notin Occupied(body)

GrownSnakeWitness ==
  /\ Len(body) = 3
  /\ count = 2
  /\ Cardinality(Occupied(body) \cup {food}) = 4

\* C19: the body length is the score plus one and the score is between 0 and
\* winFoodCount.
LengthTracksScore ==
  /\ Len(body) = count + 1
  /\ count \in 0..winFoodCount

OneFoodFromWinWitness ==
  /\ condition = "playing"
  /\ count = winFoodCount - 1
  /\ Len(body) = winFoodCount

\* C20: the pending direction is never the reversal of lastStepDirection, the
\* prospective head is never the neck, and the prospective head is on the
\* body only when the body has at least 4 points (score at least 3).
NoEarlySelfCollision ==
  /\ direction # Reversal(lastStepDirection)
  /\ Len(body) >= 2 => ProspectiveHead # body[2]
  /\ ProspectiveHead \in Occupied(body) => (Len(body) >= 4 /\ count >= 3)

ShortestSelfCollisionWitness ==
  /\ condition = "finished"
  /\ Len(body) = 4
  /\ count = 3
  /\ ProspectiveHead = body[4]
====
